---- MODULE Spec2Model ----
(***************************************************************************)
(* State-machine model of the two presentation units of the repository:   *)
(*   - EditEnrollmentDialog (the enrollment editor, a modal form)          *)
(*   - EditTeacherPage      (the teacher edit page, a routed controller)   *)
(* Every call a handler makes to a collaborator (onSave, toast,            *)
(* onOpenChange, navigate, console.log) is recorded, in call order, in the *)
(* sequence of effects of the event that was handled last.                 *)
(***************************************************************************)
EXTENDS Integers, Sequences, FiniteSets, TLC

VARIABLES
    mounted,      \* which of the two components is mounted
    open,         \* EditEnrollmentDialog prop `open`
    student,      \* EditEnrollmentDialog prop `student` (Null when absent)
    form,         \* react-hook-form values of the enrollment form
    submitCount,  \* react-hook-form formState.submitCount (cleared by reset)
    view,         \* what EditEnrollmentDialog rendered last
    effects,      \* collaborator calls made by the dialog's last event
    id,           \* EditTeacherPage route parameter `id`
    page,         \* EditTeacherPage position: loading / editable / redirected / left
    pageView,     \* what EditTeacherPage rendered last
    data,         \* values the teacher form handed to its onSubmit last
    pageEffects,  \* collaborator calls made by the page's last event
    lastEvent     \* name of the event handled last

vars == <<mounted, open, student, form, submitCount, view, effects,
          id, page, pageView, data, pageEffects, lastEvent>>

dialogVars == <<open, student, form, submitCount, view, effects>>
pageVars == <<id, page, pageView, data, pageEffects>>

-----------------------------------------------------------------------------
(* Bounds of the model *)

\* roll numbers typed by the user are "", "11", ..., ToString(10 + MaxRoll)
MaxRoll == 2
\* submits of one opened form that are explored before it is reset
MaxSubmitCount == 2

-----------------------------------------------------------------------------
(* Generic helpers *)

Range(s) == {s[i] : i \in 1..Len(s)}

\* JavaScript `a || b` on strings: the empty string is falsy
OrElse(a, b) == IF a = "" THEN b ELSE a

-----------------------------------------------------------------------------
(* EditEnrollmentDialog: data *)

\* `student: Student | null`
Null == [absent |-> TRUE]

Students ==
    { [id |-> "s1", name |-> "A", admissionNumber |-> "ADM1",
       currentClass |-> "X", currentSection |-> "B", currentYear |-> "2024-2025"],
      [id |-> "s2", name |-> "B", admissionNumber |-> "ADM2",
       currentClass |-> "Class 11", currentSection |-> "E", currentYear |-> "2022-2023"] }

academicYears == <<"2024-2025", "2025-2026", "2023-2024">>
classes == <<"XII", "XI", "X", "IX", "VIII", "VII", "VI", "V", "IV", "III", "II", "I">>
sections == <<"A", "B", "C", "D">>
feeStructures ==
    << "Standard Fee - ₹50,000/year",
       "Science Stream - ₹60,000/year",
       "Commerce Stream - ₹55,000/year",
       "Arts Stream - ₹45,000/year" >>

RollNumbers == {""} \cup {ToString(10 + n) : n \in 1..MaxRoll}

\* useForm({ defaultValues })
defaultValues(s) ==
    [ studentId    |-> IF s = Null THEN "" ELSE OrElse(s.id, ""),
      academicYear |-> IF s = Null THEN "2024-2025" ELSE OrElse(s.currentYear, "2024-2025"),
      class        |-> IF s = Null THEN "" ELSE OrElse(s.currentClass, ""),
      section      |-> IF s = Null THEN "" ELSE OrElse(s.currentSection, ""),
      rollNumber   |-> "",
      feeStructure |-> "",
      status       |-> "enrolled" ]

\* the argument of form.reset in the effect
resetValues(s) ==
    [ studentId    |-> s.id,
      academicYear |-> s.currentYear,
      class        |-> s.currentClass,
      section      |-> s.currentSection,
      rollNumber   |-> "",
      feeStructure |-> "",
      status       |-> "enrolled" ]

-----------------------------------------------------------------------------
(* EditEnrollmentDialog: collaborator calls *)

SaveCall(values) == [call |-> "onSave", values |-> values]

ToastCall(title, description) ==
    [call |-> "toast", title |-> title, description |-> description]

OpenChangeCall(o) == [call |-> "onOpenChange", open |-> o]

\* the inline field messages shown after a failed validation
FormMessages(fields) == [call |-> "FormMessage", fields |-> fields]

\* `${student?.name}`
NameOf(s) == IF s = Null THEN "undefined" ELSE s.name

-----------------------------------------------------------------------------
(* EditEnrollmentDialog: functions *)

\* the names of the fields the enrollment schema rejects: every enumerated
\* field must be a member of its option list, the roll number is free text
enrollmentSchema(values) ==
    {f \in {"academicYear"} : values.academicYear \notin Range(academicYears)}
    \cup {f \in {"class"} : values.class \notin Range(classes)}
    \cup {f \in {"section"} : values.section \notin Range(sections)}
    \cup {f \in {"feeStructure"} : values.feeStructure \notin Range(feeStructures)}
    \cup {f \in {"status"} : values.status # "enrolled"}

useEffectReset_OnlyStudentId(s, o, values) ==
    IF s # Null /\ o THEN [values EXCEPT !.studentId = s.id] ELSE values

\* React.useEffect(() => { if (student && open) form.reset({...}) })
useEffectReset(s, o, values) ==
    IF s # Null /\ o THEN resetValues(s) ELSE values

onSubmit_SavesSeed(values, s) ==
    << SaveCall(resetValues(s)),
       ToastCall("Enrollment Updated",
                 <<"Enrollment details for ", NameOf(s), " have been updated.">>),
       OpenChangeCall(FALSE) >>

onSubmit_ClosesFirst(values, s) ==
    << OpenChangeCall(FALSE),
       SaveCall(values),
       ToastCall("Enrollment Updated",
                 <<"Enrollment details for ", NameOf(s), " have been updated.">>) >>

\* const onSubmit = (values) => { onSave(values); toast({...}); onOpenChange(false) }
onSubmit(values, s) ==
    << SaveCall(values),
       ToastCall("Enrollment Updated",
                 <<"Enrollment details for ", NameOf(s), " have been updated.">>),
       OpenChangeCall(FALSE) >>

formHandleSubmit_NoResolver(values, s) == onSubmit(values, s)

formHandleSubmit_ClosesOnError(values, s) ==
    IF enrollmentSchema(values) = {}
    THEN onSubmit(values, s)
    ELSE <<FormMessages(enrollmentSchema(values)), OpenChangeCall(FALSE)>>

\* form.handleSubmit(onSubmit) with resolver zodResolver(enrollmentSchema):
\* onSubmit runs only with values the schema accepts
formHandleSubmit(values, s) ==
    IF enrollmentSchema(values) = {}
    THEN onSubmit(values, s)
    ELSE <<FormMessages(enrollmentSchema(values))>>

cancelClick_Saves(values) == <<SaveCall(values), OpenChangeCall(FALSE)>>

\* Cancel button: onClick={() => onOpenChange(false)}
cancelClick(values) == <<OpenChangeCall(FALSE)>>

\* <Dialog open={open} onOpenChange={onOpenChange}>: the dialog primitive
\* reports its own dismissal (Escape, overlay, close icon) through the prop
dialogDismiss == <<OpenChangeCall(FALSE)>>

Render_NoStudentGuard(s, o) == IF o THEN "dialog" ELSE "closed"

\* if (!student) return null; return <Dialog open={open} ...>
Render(s, o) ==
    IF s = Null THEN "null"
    ELSE IF o THEN "dialog" ELSE "closed"

\* the owner's onOpenChange callback stores the requested value in `open`
onOpenChange(o, fx) ==
    LET req == {i \in 1..Len(fx) : fx[i].call = "onOpenChange"}
    IN IF req = {} THEN o
       ELSE fx[CHOOSE i \in req : \A j \in req : j <= i].open

-----------------------------------------------------------------------------
(* EditTeacherPage: data and functions *)

\* the mock record store; of each record the page itself reads id and name,
\* the other fields are handed through to the form
teachers ==
    << [id |-> "1", name |-> "Dr. Rahul Sharma", staffId |-> "TCH001"],
       [id |-> "2", name |-> "Priya Patel", staffId |-> "TCH002"],
       [id |-> "3", name |-> "Anil Kumar", staffId |-> "TCH003"],
       [id |-> "4", name |-> "Sunita Reddy", staffId |-> "TCH004"],
       [id |-> "5", name |-> "Rajesh Gupta", staffId |-> "TCH005"] >>

\* useParams<{ id: string }>().id when the route carries no id; a template
\* string prints it as the text "undefined"
undefinedId == "undefined"

\* the result of Array.prototype.find when no element matches
NoTeacher == [absent |-> TRUE]

RouteIds == {"1", "2", "3", "4", "5", "6", "01", "TCH001", undefinedId}

\* names the user may leave in the form's name field
EditedNames == {"Dr. R. Sharma", "P. Patel"}

\* `return null`
NothingRendered == [element |-> "null"]

\* <EditTeacherForm teacher={teacher} onSubmit={handleSubmit} onCancel={...} />
FormRendered(t) == [element |-> "EditTeacherForm", teacher |-> t]

\* no values submitted yet
NoData == [absent |-> TRUE]

NavigateCall(to) == [call |-> "navigate", to |-> to]

LogCall(values) == [call |-> "console.log", values |-> values]

\* navigate('/teachers')
ListingPath == <<"teachers">>

\* `/teachers/${id}`
DetailPath(i) == <<"teachers", i>>

find_FallsBackToFirst(i) ==
    LET hits == {k \in 1..Len(teachers) : teachers[k].id = i}
    IN IF hits = {} THEN teachers[1]
       ELSE teachers[CHOOSE k \in hits : \A j \in hits : k <= j]

\* teachers.find(t => t.id === id)
find(i) ==
    LET hits == {k \in 1..Len(teachers) : teachers[k].id = i}
    IN IF hits = {} THEN NoTeacher
       ELSE teachers[CHOOSE k \in hits : \A j \in hits : k <= j]

handleSubmit_ToListing(values, i) ==
    << LogCall(values),
       ToastCall("Teacher Updated",
                 <<values.name, "'s information has been updated successfully.">>),
       NavigateCall(ListingPath) >>

\* const handleSubmit = (data) => { console.log(...); toast({...}); navigate(`/teachers/${id}`) }
handleSubmit(values, i) ==
    << LogCall(values),
       ToastCall("Teacher Updated",
                 <<values.name, "'s information has been updated successfully.">>),
       NavigateCall(DetailPath(i)) >>

\* onCancel={() => navigate(`/teachers/${id}`)}
onCancel(i) == <<NavigateCall(DetailPath(i))>>

\* back button: onClick={() => navigate(`/teachers/${id}`)}
backClick(i) == <<NavigateCall(DetailPath(i))>>

EditTeacherPage_RedirectsToDetail(i) ==
    IF find(i) = NoTeacher
    THEN [view |-> NothingRendered, effects |-> <<NavigateCall(DetailPath(i))>>]
    ELSE [view |-> FormRendered(find(i)), effects |-> <<>>]

\* the body of the component: look the teacher up, redirect when there is
\* none, else render the form seeded with the record
EditTeacherPage(i) ==
    IF find(i) = NoTeacher
    THEN [view |-> NothingRendered, effects |-> <<NavigateCall(ListingPath)>>]
    ELSE [view |-> FormRendered(find(i)), effects |-> <<>>]

\* what the teacher form may submit: the seeded record with the name edited
TeacherFormValues(t) ==
    {[name |-> n, staffId |-> t.staffId] : n \in {t.name} \cup EditedNames}

\* a navigate call takes the router away from the page
Navigates(fx) == \E k \in 1..Len(fx) : fx[k].call = "navigate"

-----------------------------------------------------------------------------
(* Initial states: one of the two components has just been mounted *)

Init ==
    /\ mounted \in {"EditEnrollmentDialog", "EditTeacherPage"}
    /\ open \in BOOLEAN
    /\ student \in Students \cup {Null}
    /\ mounted = "EditTeacherPage" => (~open /\ student = Null)
    /\ form = useEffectReset(student, open, defaultValues(student))
    /\ submitCount = 0
    /\ view = Render(student, open)
    /\ effects = <<>>
    /\ id \in RouteIds
    /\ mounted = "EditEnrollmentDialog" => id = undefinedId
    /\ page = IF mounted = "EditTeacherPage" THEN "loading" ELSE "unmounted"
    /\ pageView = NothingRendered
    /\ data = NoData
    /\ pageEffects = <<>>
    /\ lastEvent = "mount"

-----------------------------------------------------------------------------
(* EditEnrollmentDialog: events *)

\* an event of the rendered dialog: the handler ran and made the calls fx,
\* leaving the form values `values`; the owner applies the requested `open`,
\* the component renders again and the effect runs when `open` changed
DialogEvent(event, fx, values, count) ==
    /\ mounted = "EditEnrollmentDialog"
    /\ view = "dialog"
    /\ effects' = fx
    /\ open' = onOpenChange(open, fx)
    /\ student' = student
    /\ form' = IF open' # open THEN useEffectReset(student, open', values) ELSE values
    /\ submitCount' = IF open' # open /\ student # Null /\ open' THEN 0 ELSE count
    /\ view' = Render(student, open')
    /\ lastEvent' = event
    /\ UNCHANGED <<mounted, pageVars>>

\* the owner re-renders the dialog with other props; the effect runs for
\* the changed dependency
PropsChange(event, o, s) ==
    /\ mounted = "EditEnrollmentDialog"
    /\ open' = o
    /\ student' = s
    /\ form' = useEffectReset(s, o, form)
    /\ submitCount' = IF s # Null /\ o THEN 0 ELSE submitCount
    /\ view' = Render(s, o)
    /\ effects' = <<>>
    /\ lastEvent' = event
    /\ UNCHANGED <<mounted, pageVars>>

SetOpen == \E o \in BOOLEAN : o # open /\ PropsChange("setOpen", o, student)

SetStudent == \E s \in Students \cup {Null} : PropsChange("setStudent", open, s)

OpenFor == \E s \in Students : ~open /\ PropsChange("openFor", TRUE, s)

SelectAcademicYear ==
    \E y \in Range(academicYears) :
        DialogEvent("select", <<>>, [form EXCEPT !.academicYear = y], submitCount)

SelectClass ==
    \E c \in Range(classes) :
        DialogEvent("select", <<>>, [form EXCEPT !.class = c], submitCount)

SelectSection ==
    \E c \in Range(sections) :
        DialogEvent("select", <<>>, [form EXCEPT !.section = c], submitCount)

InputRollNumber ==
    \E r \in RollNumbers :
        DialogEvent("input", <<>>, [form EXCEPT !.rollNumber = r], submitCount)

SelectFeeStructure ==
    \E f \in Range(feeStructures) :
        DialogEvent("select", <<>>, [form EXCEPT !.feeStructure = f], submitCount)

Submit ==
    /\ submitCount < MaxSubmitCount
    /\ DialogEvent("submit", formHandleSubmit(form, student), form, submitCount + 1)

Cancel == DialogEvent("cancel", cancelClick(form), form, submitCount)

Dismiss == DialogEvent("dismiss", dialogDismiss, form, submitCount)

-----------------------------------------------------------------------------
(* EditTeacherPage: events *)

PageEvent(event, fx, d) ==
    /\ mounted = "EditTeacherPage"
    /\ page = "editable"
    /\ pageEffects' = fx
    /\ data' = d
    /\ page' = IF Navigates(fx) THEN "left" ELSE page
    /\ lastEvent' = event
    /\ UNCHANGED <<mounted, dialogVars, id, pageView>>

\* the first render of the mounted page
PageRender ==
    /\ mounted = "EditTeacherPage"
    /\ page = "loading"
    /\ pageView' = EditTeacherPage(id).view
    /\ pageEffects' = EditTeacherPage(id).effects
    /\ page' = IF pageView' = NothingRendered THEN "redirected" ELSE "editable"
    /\ lastEvent' = "render"
    /\ UNCHANGED <<mounted, dialogVars, id, data>>

TeacherSubmit ==
    /\ pageView # NothingRendered
    /\ \E d \in TeacherFormValues(pageView.teacher) :
          PageEvent("teacherSubmit", handleSubmit(d, id), d)

TeacherCancel == PageEvent("teacherCancel", onCancel(id), data)

TeacherBack == PageEvent("teacherBack", backClick(id), data)

\* the router shows the edit route again, for any id
RouteEnter ==
    /\ mounted = "EditTeacherPage"
    /\ page \in {"redirected", "left"}
    /\ \E i \in RouteIds : id' = i
    /\ page' = "loading"
    /\ pageView' = NothingRendered
    /\ pageEffects' = <<>>
    /\ data' = NoData
    /\ lastEvent' = "route"
    /\ UNCHANGED <<mounted, dialogVars>>

-----------------------------------------------------------------------------

Next ==
    \/ SetOpen
    \/ SetStudent
    \/ OpenFor
    \/ SelectAcademicYear
    \/ SelectClass
    \/ SelectSection
    \/ InputRollNumber
    \/ SelectFeeStructure
    \/ Submit
    \/ Cancel
    \/ Dismiss
    \/ PageRender
    \/ TeacherSubmit
    \/ TeacherCancel
    \/ TeacherBack
    \/ RouteEnter

Spec == Init /\ [][Next]_vars

-----------------------------------------------------------------------------
(* Properties *)

\* the positions of the calls to collaborator c in a sequence of effects
Calls(fx, c) == {k \in 1..Len(fx) : fx[k].call = c}

\* all four enumerated fields of v are members of their option lists
Enumerated(v) ==
    /\ \E k \in 1..3 : academicYears[k] = v.academicYear
    /\ \E k \in 1..12 : classes[k] = v.class
    /\ \E k \in 1..4 : sections[k] = v.section
    /\ \E k \in 1..4 : feeStructures[k] = v.feeStructure

\* C1: a submit of the open dialog whose four enumerated fields hold listed
\* options calls onSave exactly once, with studentId of the bound student,
\* the five form fields as currently selected and status "enrolled"
C1_SubmitSavesSelection ==
    (lastEvent = "submit" /\ student # Null /\ Enumerated(form)) =>
        /\ Cardinality(Calls(effects, "onSave")) = 1
        /\ \A k \in Calls(effects, "onSave") :
              effects[k].values =
                  [ studentId    |-> student.id,
                    academicYear |-> form.academicYear,
                    class        |-> form.class,
                    section      |-> form.section,
                    rollNumber   |-> form.rollNumber,
                    feeStructure |-> form.feeStructure,
                    status       |-> "enrolled" ]

\* the example of the specification: student s1, roll number 12, standard fee
C1_Witness ==
    /\ lastEvent = "submit"
    /\ Len(effects) = 3
    /\ effects[1] =
          [ call |-> "onSave",
            values |-> [ studentId |-> "s1", academicYear |-> "2024-2025",
                         class |-> "X", section |-> "B", rollNumber |-> "12",
                         feeStructure |-> "Standard Fee - ₹50,000/year",
                         status |-> "enrolled" ] ]

\* C2: every value object passed to onSave has its four enumerated fields
\* inside the option lists, and a submit of a form holding a value outside
\* them calls onSave not at all
C2_RejectsOutOfEnumeration ==
    /\ \A k \in Calls(effects, "onSave") : Enumerated(effects[k].values)
    /\ (lastEvent = "submit" /\ ~Enumerated(form)) => Calls(effects, "onSave") = {}

\* a submit with the class seeded from a record outside the list and the fee
\* structure still empty from the reset
C2_Witness ==
    /\ lastEvent = "submit"
    /\ form.class = "Class 11"
    /\ form.feeStructure = ""
    /\ Calls(effects, "onSave") = {}
    /\ Calls(effects, "FormMessage") # {}

\* C3: every step that takes `open` from false to true with a student
\* present leaves the form equal to the seed of that student
C3_ResetOnOpen ==
    [][ (~open /\ open' /\ student' # Null) =>
            form' = [ studentId    |-> student'.id,
                      academicYear |-> student'.currentYear,
                      class        |-> student'.currentClass,
                      section      |-> student'.currentSection,
                      rollNumber   |-> "",
                      feeStructure |-> "",
                      status       |-> "enrolled" ] ]_vars

\* the dialog has just been opened for student s2 and holds the seed of s2
C3_Witness ==
    /\ lastEvent \in {"setOpen", "openFor"}
    /\ open
    /\ student # Null
    /\ student.id = "s2"
    /\ form.studentId = "s2"
    /\ form.class = "Class 11"
    /\ form.feeStructure = ""

\* C4: once the page has rendered for a route id that is the id of no
\* teacher, it has requested navigation to /teachers, rendered nothing and
\* run no handler
C4_NotFoundRedirects ==
    (mounted = "EditTeacherPage" /\ page # "loading"
        /\ \A k \in 1..Len(teachers) : teachers[k].id # id) =>
            /\ page = "redirected"
            /\ pageView = [element |-> "null"]
            /\ pageEffects = <<[call |-> "navigate", to |-> <<"teachers">>]>>
            /\ lastEvent = "render"
            /\ data = NoData

C4_Witness ==
    /\ page = "redirected"
    /\ id = undefinedId
    /\ pageView = [element |-> "null"]

\* C5: Cancel of the dialog only requests open = false; cancel and back of
\* the teacher page only navigate to the detail view of the route id
C5_CancelNeverSaves ==
    /\ lastEvent = "cancel" =>
          effects = <<[call |-> "onOpenChange", open |-> FALSE]>>
    /\ lastEvent \in {"teacherCancel", "teacherBack"} =>
          pageEffects = <<[call |-> "navigate", to |-> <<"teachers", id>>]>>

\* the dialog was cancelled with an edited form
C5_Witness ==
    /\ lastEvent = "cancel"
    /\ Enumerated(form)
    /\ form.rollNumber = "12"
    /\ ~open

\* C6: a successful submit makes exactly three calls, in the order onSave,
\* toast naming the bound student, onOpenChange(false); no submit requests
\* the close before it has called onSave
C6_SubmitOrder ==
    /\ (lastEvent = "submit" /\ Calls(effects, "onSave") # {}) =>
          /\ Len(effects) = 3
          /\ effects[1] = [call |-> "onSave", values |-> form]
          /\ effects[2].call = "toast"
          /\ effects[2].description =
                <<"Enrollment details for ", student.name, " have been updated.">>
          /\ effects[3] = [call |-> "onOpenChange", open |-> FALSE]
    /\ lastEvent = "submit" =>
          \A k \in Calls(effects, "onOpenChange") :
              \E j \in Calls(effects, "onSave") : j < k

C6_Witness ==
    /\ lastEvent = "submit"
    /\ Len(effects) = 3
    /\ student # Null
    /\ student.name = "B"
    /\ effects[2].description = <<"Enrollment details for ", "B", " have been updated.">>
    /\ ~open

\* C7: the dialog is shown exactly when open is true and a student is
\* present; with the student absent nothing is rendered and no collaborator
\* is called
C7_Visibility ==
    /\ view = "dialog" <=> (open /\ student # Null)
    /\ student = Null => (view = "null" /\ effects = <<>>)

C7_Witness ==
    /\ mounted = "EditEnrollmentDialog"
    /\ student = Null
    /\ open
    /\ view = "null"

\* C8: a submit of the teacher form hands the values to the handler, which
\* logs them, confirms with the submitted name and navigates to the detail
\* view of the route id, which is the id of a teacher of the store
C8_TeacherSubmit ==
    lastEvent = "teacherSubmit" =>
        /\ \E k \in 1..Len(teachers) : teachers[k].id = id
        /\ pageEffects =
              << [call |-> "console.log", values |-> data],
                 [call |-> "toast", title |-> "Teacher Updated",
                  description |->
                      <<data.name, "'s information has been updated successfully.">>],
                 [call |-> "navigate", to |-> <<"teachers", id>>] >>

C8_Witness ==
    /\ lastEvent = "teacherSubmit"
    /\ id = "3"
    /\ data.name = "P. Patel"
    /\ page = "left"

\* C9 (states): the editor never requests open = true; a close it requests
\* ends a successful submit or comes from a cancel (the Cancel button or the
\* dialog's own dismissal); while the dialog is shown Cancel is enabled
C9_States ==
    /\ \A k \in Calls(effects, "onOpenChange") : effects[k].open = FALSE
    /\ Calls(effects, "onOpenChange") # {} =>
          \/ lastEvent \in {"cancel", "dismiss"}
          \/ /\ lastEvent = "submit"
             /\ effects[Len(effects)].call = "onOpenChange"
             /\ Calls(effects, "onSave") # {}
    /\ view = "dialog" => ENABLED Cancel

\* C9 (steps): only the owner opens the dialog; the page leaves loading for
\* editable exactly when the route id equals a teacher's id and for
\* redirected otherwise, and leaves editable only by navigating away
C9_Steps ==
    /\ (~open /\ open') => lastEvent' \in {"setOpen", "openFor"}
    /\ (open /\ ~open') => lastEvent' \in {"submit", "cancel", "dismiss", "setOpen"}
    /\ (page = "loading" /\ page' # page) =>
          \/ page' = "editable" /\ \E k \in 1..Len(teachers) : teachers[k].id = id
          \/ page' = "redirected" /\ \A k \in 1..Len(teachers) : teachers[k].id # id
    /\ (page = "editable" /\ page' # page) => page' = "left"
    /\ (page \in {"redirected", "left"} /\ page' # page) => page' = "loading"

\* C9: the lifecycle of the dialog and of the page
C9_Lifecycle == []C9_States /\ [][C9_Steps]_vars

\* an opened dialog was closed again by its own dismissal
C9_Witness ==
    /\ lastEvent = "dismiss"
    /\ student # Null
    /\ ~open
    /\ view = "closed"
    /\ effects = <<[call |-> "onOpenChange", open |-> FALSE]>>

\* C10: a submit that fails validation leaves open, the form values and the
\* view as they were and makes no toast and no onOpenChange call; a valid
\* submit after a failed one calls onSave exactly once
C10_FailedSubmitKeepsEditor ==
    /\ [][ (lastEvent' = "submit" /\ Calls(effects', "onSave") = {}) =>
              /\ open' = open
              /\ form' = form
              /\ view' = view
              /\ student' = student
              /\ Calls(effects', "toast") = {}
              /\ Calls(effects', "onOpenChange") = {} ]_vars
    /\ [](( lastEvent = "submit" /\ submitCount > 1 /\ Enumerated(form)) =>
              Cardinality(Calls(effects, "onSave")) = 1)

\* the second submit of one opened form succeeded, so the first had failed
C10_Witness ==
    /\ lastEvent = "submit"
    /\ submitCount = 2
    /\ Cardinality(Calls(effects, "onSave")) = 1
    /\ ~open

====
